---- MODULE Spec2Model ----
(***************************************************************************)
(* Model of the itinerary data-processing pipeline of                      *)
(* src/src/lib/itinerary-processor.ts (processItineraryData,               *)
(* detectMealsInItem, calculateDayDuration) and of the persistence mock    *)
(* createItinerary of src/migrations/0001_initial.sql.                     *)
(*                                                                         *)
(* A JavaScript string is a sequence of one-character strings, so that     *)
(* trim, toLowerCase, includes and the time pattern are computed.  A       *)
(* spreadsheet cell is a record [k, s, n]: k is the JavaScript type of the *)
(* value ("str", "num", "undef", "null"), s its characters when it is a    *)
(* string, n its value when it is a number.                                *)
(***************************************************************************)
EXTENDS Integers, Sequences, FiniteSets, TLC

\* frame[i] is the activation of processItineraryData of invocation i: its
\* argument, its locals, its position in the forEach and what it returned.
\* items, duration and dpc are an activation of calculateDayDuration.
\* now is the clock Date.now() reads and ids the identifiers createItinerary
\* has returned so far, in call order.
\* call is an application of one of the formatter functions: the function,
\* its arguments, what it returned and whether it returned or threw.
\* days is the state of the manual-entry form, upload the state of the
\* file-upload component, page the state of the create page.
VARIABLES frame, items, duration, dpc, now, ids, call, days, upload, page

vars == <<frame, items, duration, dpc, now, ids, call, days, upload, page>>

(***************************************************************************)
(* Bounds of the model.                                                    *)
(***************************************************************************)
MaxDataRows == 3
MaxCalls == 2
MaxItems == 3
MaxClock == 5
MaxCreates == 3
MaxMeals == 3
MaxDays == 3
MaxActivities == 2

(***************************************************************************)
(* JavaScript strings.                                                     *)
(***************************************************************************)
Range(s) == {s[i] : i \in 1..Len(s)}

UpperLetters ==
  <<"A","B","C","D","E","F","G","H","I","J","K","L","M",
    "N","O","P","Q","R","S","T","U","V","W","X","Y","Z">>

LowerLetters ==
  <<"a","b","c","d","e","f","g","h","i","j","k","l","m",
    "n","o","p","q","r","s","t","u","v","w","x","y","z">>

DigitChars == <<"0","1","2","3","4","5","6","7","8","9">>

WhiteSpace == {" "}

\* String.prototype.toLowerCase on one character
LowerChar(c) ==
  IF \E i \in 1..26 : UpperLetters[i] = c
  THEN LowerLetters[CHOOSE i \in 1..26 : UpperLetters[i] = c]
  ELSE c

\* String.prototype.toLowerCase
toLowerCase(s) == [i \in 1..Len(s) |-> LowerChar(s[i])]

\* String.prototype.toUpperCase on one character
UpperChar(c) ==
  IF \E i \in 1..26 : LowerLetters[i] = c
  THEN UpperLetters[CHOOSE i \in 1..26 : LowerLetters[i] = c]
  ELSE c

\* String.prototype.trim
RECURSIVE trimStart(_)
trimStart(s) ==
  IF s # <<>> /\ Head(s) \in WhiteSpace THEN trimStart(Tail(s)) ELSE s

RECURSIVE trimEnd(_)
trimEnd(s) ==
  IF s # <<>> /\ s[Len(s)] \in WhiteSpace
  THEN trimEnd(SubSeq(s, 1, Len(s) - 1))
  ELSE s

trim(s) == trimEnd(trimStart(s))

\* String.prototype.includes
includes(text, keyword) ==
  \E i \in 0..(Len(text) - Len(keyword)) :
    SubSeq(text, i + 1, i + Len(keyword)) = keyword

\* Number.prototype.toString for integers
RECURSIVE NatToString(_)
NatToString(n) ==
  IF n < 10 THEN <<DigitChars[n + 1]>>
  ELSE NatToString(n \div 10) \o <<DigitChars[(n % 10) + 1]>>

NumberToString(n) ==
  IF n < 0 THEN <<"-">> \o NatToString(0 - n) ELSE NatToString(n)

IsDigit(c) == \E i \in 1..10 : DigitChars[i] = c

DigitValue(c) == (CHOOSE i \in 1..10 : DigitChars[i] = c) - 1

\* parseInt(s, 10) on a string of decimal digits
RECURSIVE parseInt(_)
parseInt(s) ==
  IF s = <<>> THEN 0
  ELSE parseInt(SubSeq(s, 1, Len(s) - 1)) * 10 + DigitValue(s[Len(s)])

(***************************************************************************)
(* Spreadsheet cells (the `any` of data: any[][]).                         *)
(***************************************************************************)
Str(s) == [k |-> "str", s |-> s, n |-> 0]
Num(n) == [k |-> "num", s |-> <<>>, n |-> n]
Undefined == [k |-> "undef", s |-> <<>>, n |-> 0]
Null == [k |-> "null", s |-> <<>>, n |-> 0]

\* ToBoolean: the truthiness the filter's && chain and the || default test
Truthy(c) ==
  CASE c.k = "str" -> c.s # <<>>
    [] c.k = "num" -> c.n # 0
    [] OTHER -> FALSE

\* String(value), also the conversion of a template literal and of a
\* property key
String(c) ==
  CASE c.k = "str" -> c.s
    [] c.k = "num" -> NumberToString(c.n)
    [] c.k = "undef" -> <<"u","n","d","e","f","i","n","e","d">>
    [] OTHER -> <<"n","u","l","l">>

\* row[i] with JavaScript's zero-based index; a missing element is undefined
Cell(row, i) == IF i < Len(row) THEN row[i + 1] ELSE Undefined

\* An element of the grid that is null instead of an array: reading row[0]
\* of it is a TypeError.  It is written as a row holding one cell of a kind
\* no array holds.
NotAnArray == [k |-> "notarray", s |-> <<>>, n |-> 0]
NullRow == <<NotAnArray>>
Indexable(row) == row # NullRow

(***************************************************************************)
(* Literals of the source and of the sample grids.                         *)
(***************************************************************************)
sTravelItinerary ==
  <<"T","r","a","v","e","l"," ","I","t","i","n","e","r","a","r","y">>
sDayLower == <<"d","a","y">>
sCityLower == <<"c","i","t","y">>
sBreakfast == <<"b","r","e","a","k","f","a","s","t">>
sBrunch == <<"b","r","u","n","c","h">>
sLunch == <<"l","u","n","c","h">>
sDinner == <<"d","i","n","n","e","r">>

\* The keys every object literal {} inherits from Object.prototype (a few of
\* them): grouped[key] is a truthy inherited value for these, never a DayData.
ObjectPrototypeKeys ==
  { <<"c","o","n","s","t","r","u","c","t","o","r">>,
    <<"t","o","S","t","r","i","n","g">>,
    <<"_","_","p","r","o","t","o","_","_">> }

\* const grouped: Record<string, DayData> = {}
EmptyMap == <<>>

(***************************************************************************)
(* detectMealsInItem                                                       *)
(***************************************************************************)
mealKeywords == <<sBreakfast, sBrunch, sLunch, sDinner>>

MealText_NoSeparator(category, description) ==
  toLowerCase(String(category) \o String(description))

\* `${category} ${description}`.toLowerCase()
MealText(category, description) ==
  toLowerCase(String(category) \o <<" ">> \o String(description))

detectMealsInItem_DescriptionOnly(category, description) ==
  LET text == toLowerCase(String(description))
      Found(keyword) == includes(text, keyword)
  IN  SelectSeq(mealKeywords, Found)

detectMealsInItem(category, description) ==
  LET text == MealText(category, description)
      Found(keyword) == includes(text, keyword)
  IN  SelectSeq(mealKeywords, Found)

(***************************************************************************)
(* processItineraryData                                                    *)
(***************************************************************************)
TripTitle_FirstCell(grid) ==
  LET cell == IF Len(grid) = 0 THEN Undefined ELSE Cell(grid[1], 0)
  IN  IF Truthy(cell) THEN cell ELSE Str(sTravelItinerary)

\* data[0]?.[1] || "Travel Itinerary"
TripTitle(grid) ==
  LET cell == IF Len(grid) = 0 THEN Undefined ELSE Cell(grid[1], 1)
  IN  IF Truthy(cell) THEN cell ELSE Str(sTravelItinerary)

Slice2_FromOne(grid) == SubSeq(grid, 2, Len(grid))

Slice2_None(grid) == grid

\* data.slice(2)
Slice2(grid) == SubSeq(grid, 3, Len(grid))

DataAfterSlice_Splice(grid) == SubSeq(grid, 3, Len(grid))

\* data after data.slice(2).filter(...): slice and filter build new arrays
\* and leave their receiver as it is
DataAfterSlice(grid) == grid

\* the predicate given to filter
RowFilter(row) ==
  /\ Truthy(Cell(row, 0))
  /\ Truthy(Cell(row, 1))
  /\ Truthy(Cell(row, 5))
  /\ toLowerCase(trim(String(Cell(row, 0)))) # sDayLower
  /\ toLowerCase(trim(String(Cell(row, 1)))) # sCityLower

FilterRows(grid) == SelectSeq(Slice2(grid), RowFilter)

\* the filter predicate reads row[0] of every element of data.slice(2)
FilterThrows(grid) ==
  \E j \in 1..Len(Slice2(grid)) : ~Indexable(Slice2(grid)[j])

\* the property key grouped[day] reads and writes
DayKey(row) == String(Cell(row, 0))

\* the truthiness of grouped[day]: an own bucket or an inherited property
HasGrouped(g, key) == key \in DOMAIN g \/ key \in ObjectPrototypeKeys

NewDayData(row) ==
  [day |-> Cell(row, 0), city |-> Cell(row, 1), date |-> Cell(row, 2),
   items |-> <<>>, allMeals |-> <<>>]

EnsureBucket_Overwrite(g, row) ==
  IF DayKey(row) \in DOMAIN g
  THEN [g EXCEPT ![DayKey(row)].city = Cell(row, 1),
                 ![DayKey(row)].date = Cell(row, 2)]
  ELSE IF HasGrouped(g, DayKey(row)) THEN g
  ELSE (DayKey(row) :> NewDayData(row)) @@ g

\* if (!grouped[day]) { grouped[day] = {...} }
EnsureBucket(g, row) ==
  IF HasGrouped(g, DayKey(row)) THEN g
  ELSE (DayKey(row) :> NewDayData(row)) @@ g

\* { timing: String(timing).trim(), category, description }
NewItem(row) ==
  [timing |-> trim(String(Cell(row, 3))),
   category |-> Cell(row, 4),
   description |-> Cell(row, 5)]

ArrayPush_Unshift(array, element) == <<element>> \o array

\* Array.prototype.push
ArrayPush(array, element) == Append(array, element)

PushItem_EveryBucket(g, row) ==
  [k \in DOMAIN g |-> [g[k] EXCEPT !.items = ArrayPush(@, NewItem(row))]]

\* grouped[day].items.push(...)
PushItem(g, row) ==
  [g EXCEPT ![DayKey(row)].items = ArrayPush(@, NewItem(row))]

SetAdd_NoDedupe(set, value) == Append(set, value)

\* Set.prototype.add on an insertion-ordered Set
SetAdd(set, value) ==
  IF value \in Range(set) THEN set ELSE Append(set, value)

RECURSIVE AddEach(_, _)
AddEach(set, values) ==
  IF values = <<>> THEN set
  ELSE AddEach(SetAdd(set, Head(values)), Tail(values))

\* detectMealsInItem(category, description).forEach(meal => allMeals.add(meal))
AddMeals(g, row) ==
  [g EXCEPT ![DayKey(row)].allMeals =
     AddEach(@, detectMealsInItem(Cell(row, 4), Cell(row, 5)))]

\* grouped[day].items is read on an inherited, non-DayData value: TypeError
RowThrows(g, row) == DayKey(row) \notin DOMAIN EnsureBucket(g, row)

\* one run of the forEach callback that does not throw
GroupRow(g, row) == AddMeals(PushItem(EnsureBucket(g, row), row), row)

\* some run of the forEach callback over rs throws
RECURSIVE FoldThrows(_, _)
FoldThrows(g, rs) ==
  /\ rs # <<>>
  /\ \/ RowThrows(g, Head(rs))
     \/ FoldThrows(GroupRow(g, Head(rs)), Tail(rs))

\* processItineraryData(grid) ends in an exception
processItineraryDataThrows(grid) ==
  FilterThrows(grid) \/ FoldThrows(EmptyMap, FilterRows(grid))

NewGroupingMap_Singleton(i) == frame[i].grouped

NewGroupingMap(i) == EmptyMap

NoResult == [title |-> Undefined, days |-> EmptyMap]

IdleFrame ==
  [data |-> <<>>, tripTitle |-> Undefined, rows |-> <<>>, pos |-> 0,
   grouped |-> EmptyMap, pc |-> "idle", result |-> NoResult, calls |-> 0,
   thrown |-> "none"]

\* entry of processItineraryData up to the end of filter
Call(i, grid) ==
  /\ frame[i].pc # "fold"
  /\ frame' = [frame EXCEPT ![i] =
       [data |-> DataAfterSlice(grid),
        tripTitle |-> TripTitle(grid),
        rows |-> IF FilterThrows(grid) THEN <<>> ELSE FilterRows(grid),
        pos |-> 0,
        grouped |-> NewGroupingMap(i),
        pc |-> IF FilterThrows(grid) THEN "error" ELSE "fold",
        result |-> NoResult,
        calls |-> frame[i].calls + 1,
        thrown |-> IF FilterThrows(grid) THEN "TypeError" ELSE "none"]]
  /\ UNCHANGED <<items, duration, dpc, now, ids, call, days, upload, page>>

\* one run of the forEach callback
ForEachRow(i) ==
  /\ frame[i].pc = "fold"
  /\ frame[i].pos < Len(frame[i].rows)
  /\ LET row == frame[i].rows[frame[i].pos + 1]
     IN  IF RowThrows(frame[i].grouped, row)
         THEN frame' = [frame EXCEPT ![i].pc = "error",
                                     ![i].thrown = "TypeError"]
         ELSE frame' = [frame EXCEPT ![i].pos = @ + 1,
                                     ![i].grouped = GroupRow(@, row)]
  /\ UNCHANGED <<items, duration, dpc, now, ids, call, days, upload, page>>

\* return { title: tripTitle, days: grouped }
Return(i) ==
  /\ frame[i].pc = "fold"
  /\ frame[i].pos = Len(frame[i].rows)
  /\ frame' = [frame EXCEPT ![i].pc = "done",
                            ![i].result = [title |-> frame[i].tripTitle,
                                           days |-> frame[i].grouped]]
  /\ UNCHANGED <<items, duration, dpc, now, ids, call, days, upload, page>>

(***************************************************************************)
(* calculateDayDuration                                                    *)
(***************************************************************************)
sZeroHours == <<"0"," ","h","o","u","r","s">>
sFullDay == <<"F","u","l","l"," ","d","a","y">>
sHours == <<" ","h","o","u","r","s">>

MinutesPerHour == 60
MinutesPerDay == 1440

\* timeStr.match(/^(\d{1,2}):(\d{2})$/)
TimeMatch(timeStr) ==
  /\ Len(timeStr) \in {4, 5}
  /\ timeStr[Len(timeStr) - 2] = ":"
  /\ \A j \in 1..Len(timeStr) : j # Len(timeStr) - 2 => IsDigit(timeStr[j])

\* parseInt(timeMatch[1], 10) and parseInt(timeMatch[2], 10)
MatchedHours(timeStr) == parseInt(SubSeq(timeStr, 1, Len(timeStr) - 3))
MatchedMinutes(timeStr) ==
  parseInt(SubSeq(timeStr, Len(timeStr) - 1, Len(timeStr)))

ValidTiming_NoRange(timeStr) == TimeMatch(timeStr)

ValidTiming_Hour24(timeStr) ==
  /\ TimeMatch(timeStr)
  /\ ~ (\/ MatchedHours(timeStr) < 0 \/ MatchedHours(timeStr) > 24
        \/ MatchedMinutes(timeStr) < 0 \/ MatchedMinutes(timeStr) > 59)

\* the timings the loop does not skip
ValidTiming(timeStr) ==
  /\ TimeMatch(timeStr)
  /\ ~ (\/ MatchedHours(timeStr) < 0 \/ MatchedHours(timeStr) > 23
        \/ MatchedMinutes(timeStr) < 0 \/ MatchedMinutes(timeStr) > 59)

\* hours * 60 + minutes
MinutesOf(timeStr) ==
  MatchedHours(timeStr) * MinutesPerHour + MatchedMinutes(timeStr)

\* the array times after the loop
RECURSIVE Times(_)
Times(its) ==
  IF its = <<>> THEN <<>>
  ELSE IF ValidTiming(Head(its).timing)
       THEN <<MinutesOf(Head(its).timing)>> \o Times(Tail(its))
       ELSE Times(Tail(its))

\* Math.min(...times) and Math.max(...times)
MathMin(times) == CHOOSE x \in Range(times) : \A y \in Range(times) : x <= y
MathMax(times) == CHOOSE x \in Range(times) : \A y \in Range(times) : x >= y

\* The spans m of 0..1439 minutes whose value in hours, m / 60, lies midway
\* between two tenths and whose IEEE-754 double is below that midpoint, so
\* that toFixed(1) rounds it down; a double at or above the midpoint rounds up.
DoubleBelowMidpoint ==
  { 9, 21, 51, 57, 69, 87, 99, 117, 123, 129, 153, 159, 183, 189, 213, 219,
    243, 261, 273, 291, 303, 321, 333, 351, 363, 381, 393, 411, 423, 441,
    453, 471, 501, 507, 531, 537, 561, 567, 591, 597, 621, 627, 651, 657,
    681, 687, 711, 717, 741, 747, 771, 777, 801, 807, 831, 837, 861, 867,
    891, 897, 921, 927, 951, 957, 969, 987, 999, 1017, 1029, 1047, 1059,
    1077, 1089, 1107, 1119, 1137, 1149, 1167, 1179, 1197, 1209, 1227, 1239,
    1257, 1269, 1287, 1299, 1317, 1329, 1347, 1359, 1377, 1389, 1407, 1419,
    1437 }

\* the number of tenths (durationMinutes / 60).toFixed(1) shows
Tenths(durationMinutes) ==
  LET floor == durationMinutes \div 6
      rest == durationMinutes % 6
  IN  IF rest < 3 THEN floor
      ELSE IF rest > 3 THEN floor + 1
      ELSE IF durationMinutes \in DoubleBelowMidpoint THEN floor
      ELSE floor + 1

\* (durationMinutes / 60).toFixed(1)
toFixed1(durationMinutes) ==
  NatToString(Tenths(durationMinutes) \div 10) \o <<".">> \o
  NatToString(Tenths(durationMinutes) % 10)

FormatDuration_AlwaysFixed(durationMinutes) ==
  IF durationMinutes >= 24 * MinutesPerHour THEN sFullDay
  ELSE toFixed1(durationMinutes) \o sHours

\* the three return statements after durationHours is computed
FormatDuration(durationMinutes) ==
  IF durationMinutes >= 24 * MinutesPerHour THEN sFullDay
  ELSE IF durationMinutes % MinutesPerHour = 0
       THEN NumberToString(durationMinutes \div MinutesPerHour) \o sHours
       ELSE toFixed1(durationMinutes) \o sHours

DurationMinutes_FirstLast(times) ==
  LET firstTime == times[1]
      lastTime == times[Len(times)]
      durationMinutes == lastTime - firstTime
  IN  IF durationMinutes < 0 THEN durationMinutes + MinutesPerDay
      ELSE durationMinutes

\* lastTime - firstTime, plus 1440 when negative
DurationMinutes(times) ==
  LET firstTime == MathMin(times)
      lastTime == MathMax(times)
      durationMinutes == lastTime - firstTime
  IN  IF durationMinutes < 0 THEN durationMinutes + MinutesPerDay
      ELSE durationMinutes

calculateDayDuration_NoTimesGuard(its) ==
  IF Len(its) = 0 THEN sZeroHours
  ELSE IF Len(Times(its)) = 0
       THEN <<"-","I","n","f","i","n","i","t","y">> \o sHours
  ELSE FormatDuration(DurationMinutes(Times(its)))

calculateDayDuration(its) ==
  IF Len(its) = 0 THEN sZeroHours
  ELSE IF Len(Times(its)) = 0 THEN sZeroHours
  ELSE FormatDuration(DurationMinutes(Times(its)))

\* a call of calculateDayDuration(items)
CalculateDayDuration ==
  /\ dpc = "ready"
  /\ duration' = calculateDayDuration(items)
  /\ dpc' = "done"
  /\ UNCHANGED <<frame, items, now, ids, call, days, upload, page>>

(***************************************************************************)
(* formatMealsText and getCategoryIcon                                     *)
(***************************************************************************)
sNoMealsDetected ==
  <<"N","o"," ","m","e","a","l","s"," ","d","e","t","e","c","t","e","d">>
sAmpersand == <<" ","&"," ">>

\* meal.charAt(0).toUpperCase() + meal.slice(1)
Capitalize(meal) ==
  IF meal = <<>> THEN <<>> ELSE <<UpperChar(Head(meal))>> \o Tail(meal)

\* Array.prototype.join
RECURSIVE Join(_, _)
Join(strings, separator) ==
  IF strings = <<>> THEN <<>>
  ELSE IF Len(strings) = 1 THEN strings[1]
  ELSE strings[1] \o separator \o Join(Tail(strings), separator)

formatMealsText_Reversed(mealsArray) ==
  IF Len(mealsArray) = 0 THEN sNoMealsDetected
  ELSE Join([i \in 1..Len(mealsArray) |-> Capitalize(mealsArray[Len(mealsArray) + 1 - i])],
            sAmpersand)

formatMealsText(mealsArray) ==
  IF Len(mealsArray) = 0 THEN sNoMealsDetected
  ELSE Join([i \in 1..Len(mealsArray) |-> Capitalize(mealsArray[i])],
            sAmpersand)

\* the keys of the object literal categoryIcons
sSightseeing == <<"s","i","g","h","t","s","e","e","i","n","g">>
sFood == <<"f","o","o","d">>
sTransportation ==
  <<"t","r","a","n","s","p","o","r","t","a","t","i","o","n">>
sAccommodation == <<"a","c","c","o","m","m","o","d","a","t","i","o","n">>
sActivity == <<"a","c","t","i","v","i","t","y">>

categoryIconKeys ==
  {sSightseeing, sFood, sTransportation, sAccommodation, sActivity}

\* the values getCategoryIcon can give: the <svg> string of a key of
\* categoryIcons, the generic <svg> string, or the value of an inherited
\* property of the object literal (a function or an object, not a string)
IconOf(key) == [kind |-> "svg", of |-> key]
GenericIcon == [kind |-> "svg", of |-> <<>>]
InheritedValue(key) == [kind |-> "inherited", of |-> key]

\* category.toLowerCase() exists on strings only: otherwise a TypeError
getCategoryIconThrows(category) == category.k # "str"

\* categoryIcons[lowerCategory] || generic
getCategoryIcon(category) ==
  LET lowerCategory == toLowerCase(category.s)
  IN  IF lowerCategory \in categoryIconKeys THEN IconOf(lowerCategory)
      ELSE IF lowerCategory \in ObjectPrototypeKeys
           THEN InheritedValue(lowerCategory)
           ELSE GenericIcon

IdleCall == [fn |-> "none", args |-> <<>>, ret |-> <<>>, pc |-> "idle"]

\* a call of detectMealsInItem(category, description)
DetectMealsInItem ==
  /\ call.fn = "detectMealsInItem"
  /\ call.pc = "ready"
  /\ call' = [call EXCEPT !.ret = detectMealsInItem(call.args[1], call.args[2]),
                          !.pc = "done"]
  /\ UNCHANGED <<frame, items, duration, dpc, now, ids, days, upload, page>>

\* a call of formatMealsText(mealsArray)
FormatMealsText ==
  /\ call.fn = "formatMealsText"
  /\ call.pc = "ready"
  /\ call' = [call EXCEPT !.ret = formatMealsText(call.args[1]),
                          !.pc = "done"]
  /\ UNCHANGED <<frame, items, duration, dpc, now, ids, days, upload, page>>

\* a call of getCategoryIcon(category)
GetCategoryIcon ==
  /\ call.fn = "getCategoryIcon"
  /\ call.pc = "ready"
  /\ IF getCategoryIconThrows(call.args[1])
     THEN call' = [call EXCEPT !.pc = "error"]
     ELSE call' = [call EXCEPT !.ret = getCategoryIcon(call.args[1]),
                               !.pc = "done"]
  /\ UNCHANGED <<frame, items, duration, dpc, now, ids, days, upload, page>>

(***************************************************************************)
(* createItinerary (persistence mock)                                      *)
(***************************************************************************)
sItineraryPrefix == <<"i","t","i","n","e","r","a","r","y","_">>

\* `itinerary_${Date.now()}`
ItineraryId(millis) == sItineraryPrefix \o NumberToString(millis)

UserIds == {"user_1", "user_2"}

\* a call of createItinerary(itineraryData, userId): the returned identifier
\* is appended to ids
CreateItinerary(userId) ==
  /\ Len(ids) < MaxCreates
  /\ ids' = Append(ids, ItineraryId(now))
  /\ UNCHANGED <<frame, items, duration, dpc, now, call, days, upload, page>>

\* a millisecond passes
Tick ==
  /\ now < MaxClock
  /\ now' = now + 1
  /\ UNCHANGED <<frame, items, duration, dpc, ids, call, days, upload, page>>

(***************************************************************************)
(* createDayPage (PDF generator): the activities table, the meals line and *)
(* the duration line of one day's page.                                    *)
(***************************************************************************)
\* day.items.map(item => [item.timing, item.category, item.description])
TableData(its) ==
  [j \in 1..Len(its) |-> <<its[j].timing, its[j].category, its[j].description>>]

\* Array.from(day.allMeals).map(capitalize).join(' & ') || 'No meals detected'
PageMealsText(allMeals) ==
  LET joined == Join([j \in 1..Len(allMeals) |-> Capitalize(allMeals[j])],
                     sAmpersand)
  IN  IF joined = <<>> THEN sNoMealsDetected ELSE joined

\* createDayPage(doc, day, itineraryData) for the day under key of the
\* aggregate processItineraryData returned; the generator's own
\* calculateDayDuration is the processor's, statement for statement
CreateDayPage(key) ==
  /\ frame[1].pc = "done"
  /\ call.pc = "idle"
  /\ key \in DOMAIN frame[1].result.days
  /\ LET day == frame[1].result.days[key]
     IN  call' = [fn |-> "createDayPage",
                  args |-> <<day>>,
                  ret |-> [body |-> TableData(day.items),
                           mealsText |-> PageMealsText(day.allMeals),
                           duration |-> calculateDayDuration(day.items)],
                  pc |-> "done"]
  /\ UNCHANGED <<frame, items, duration, dpc, now, ids, days, upload, page>>

(***************************************************************************)
(* processSpreadsheetData (persistence module): the pipeline written a     *)
(* second time, inside try/catch, followed by createItinerary.             *)
(***************************************************************************)
sFailedToProcess ==
  <<"F","a","i","l","e","d"," ","t","o"," ","p","r","o","c","e","s","s"," ",
    "s","p","r","e","a","d","s","h","e","e","t"," ","d","a","t","a">>

sheetMealKeywords == <<sBreakfast, sBrunch, sLunch, sDinner>>

sheetDetectMealsInItem_DescriptionOnly(category, description) ==
  LET text == toLowerCase(String(description))
      Found(keyword) == includes(text, keyword)
  IN  SelectSeq(sheetMealKeywords, Found)

\* the module's own detectMealsInItem
sheetDetectMealsInItem(category, description) ==
  LET text == toLowerCase(String(category) \o <<" ">> \o String(description))
      Found(keyword) == includes(text, keyword)
  IN  SelectSeq(sheetMealKeywords, Found)

\* data[0]?.[1] || "Travel Itinerary"
SheetTripTitle(grid) ==
  LET cell == IF Len(grid) = 0 THEN Undefined ELSE Cell(grid[1], 1)
  IN  IF Truthy(cell) THEN cell ELSE Str(sTravelItinerary)

\* the predicate given to filter
SheetRowFilter(row) ==
  /\ Truthy(Cell(row, 0)) /\ Truthy(Cell(row, 1)) /\ Truthy(Cell(row, 5))
  /\ toLowerCase(trim(String(Cell(row, 0)))) # sDayLower
  /\ toLowerCase(trim(String(Cell(row, 1)))) # sCityLower

\* data.slice(2).filter(...)
SheetFilterRows(grid) == SelectSeq(SubSeq(grid, 3, Len(grid)), SheetRowFilter)

SheetFilterThrows(grid) == \E j \in 3..Len(grid) : ~Indexable(grid[j])

\* one run of the forEach callback that does not throw
SheetGroupRow(g, row) ==
  LET day == String(Cell(row, 0))
      made == IF HasGrouped(g, day) THEN g
              ELSE (day :> [day |-> Cell(row, 0), city |-> Cell(row, 1),
                            date |-> Cell(row, 2), items |-> <<>>,
                            allMeals |-> <<>>]) @@ g
      pushed == [made EXCEPT ![day].items =
                   Append(@, [timing |-> trim(String(Cell(row, 3))),
                              category |-> Cell(row, 4),
                              description |-> Cell(row, 5)])]
  IN  [pushed EXCEPT ![day].allMeals =
         AddEach(@, sheetDetectMealsInItem(Cell(row, 4), Cell(row, 5)))]

\* grouped[day].items is read on an inherited value: TypeError
SheetRowThrows(g, row) ==
  String(Cell(row, 0)) \notin DOMAIN g /\ HasGrouped(g, String(Cell(row, 0)))

\* the forEach over the filtered rows: the map, or "throws" when a callback
\* throws
RECURSIVE SheetFold(_, _)
SheetFold(g, rs) ==
  IF rs = <<>> THEN [throws |-> FALSE, grouped |-> g]
  ELSE IF SheetRowThrows(g, Head(rs)) THEN [throws |-> TRUE, grouped |-> g]
  ELSE SheetFold(SheetGroupRow(g, Head(rs)), Tail(rs))

SheetThrows(grid) ==
  \/ SheetFilterThrows(grid)
  \/ SheetFold(EmptyMap, SheetFilterRows(grid)).throws

\* { title: tripTitle, days: grouped, userId }
SheetItineraryData(grid, userId) ==
  [title |-> SheetTripTitle(grid),
   days |-> SheetFold(EmptyMap, SheetFilterRows(grid)).grouped,
   userId |-> userId]

\* a call of processSpreadsheetData(data, userId): the catch block turns
\* whatever the try block throws into Error('Failed to process spreadsheet
\* data'); otherwise createItinerary gets the aggregate and its identifier
\* is returned
ProcessSpreadsheetData ==
  /\ call.fn = "processSpreadsheetData"
  /\ call.pc = "ready"
  /\ IF SheetThrows(call.args[1])
     THEN /\ call' = [call EXCEPT !.pc = "error",
                        !.ret = [name |-> "Error",
                                 message |-> sFailedToProcess]]
          /\ UNCHANGED ids
     ELSE /\ call' = [call EXCEPT !.pc = "done",
                        !.ret = [id |-> ItineraryId(now),
                                 itineraryData |->
                                   SheetItineraryData(call.args[1],
                                                      call.args[2])]]
          /\ ids' = Append(ids, ItineraryId(now))
  /\ UNCHANGED <<frame, items, duration, dpc, now, days, upload, page>>

(***************************************************************************)
(* ItineraryForm (manual entry): the days state and its handlers.          *)
(***************************************************************************)
NewActivity(id) == [id |-> id, time |-> "", category |-> "", description |-> ""]

NewDay(id) ==
  [id |-> id, city |-> "", date |-> "", activities |-> <<NewActivity(1)>>]

\* useState([{ id: 1, ..., activities: [{ id: 1, ... }] }])
InitialDays == <<NewDay(1)>>

\* days.map(f)
MapDays(f(_)) == [j \in 1..Len(days) |-> f(days[j])]

\* addDay: the new day gets id days.length + 1
AddDay ==
  /\ Len(days) < MaxDays
  /\ days' = Append(days, NewDay(Len(days) + 1))
  /\ UNCHANGED <<frame, items, duration, dpc, now, ids, call, upload, page>>

\* removeDay(dayId)
RemoveDay(dayId) ==
  /\ IF Len(days) > 1
     THEN days' = SelectSeq(days, LAMBDA day : day.id # dayId)
     ELSE days' = days
  /\ UNCHANGED <<frame, items, duration, dpc, now, ids, call, upload, page>>

\* addActivity(dayId): the new activity gets id day.activities.length + 1
AddActivity(dayId) ==
  /\ \A j \in 1..Len(days) :
       days[j].id = dayId => Len(days[j].activities) < MaxActivities
  /\ LET f(day) ==
           IF day.id = dayId
           THEN [day EXCEPT !.activities =
                   Append(@, NewActivity(Len(day.activities) + 1))]
           ELSE day
     IN  days' = MapDays(f)
  /\ UNCHANGED <<frame, items, duration, dpc, now, ids, call, upload, page>>

\* removeActivity(dayId, activityId)
RemoveActivity(dayId, activityId) ==
  /\ LET f(day) ==
           IF day.id = dayId /\ Len(day.activities) > 1
           THEN [day EXCEPT !.activities =
                   SelectSeq(@, LAMBDA activity : activity.id # activityId)]
           ELSE day
     IN  days' = MapDays(f)
  /\ UNCHANGED <<frame, items, duration, dpc, now, ids, call, upload, page>>

\* updateDay(dayId, "city", value)
UpdateDay(dayId, value) ==
  /\ LET f(day) == IF day.id = dayId THEN [day EXCEPT !.city = value] ELSE day
     IN  days' = MapDays(f)
  /\ UNCHANGED <<frame, items, duration, dpc, now, ids, call, upload, page>>

\* updateActivity(dayId, activityId, "time", value)
UpdateActivity(dayId, activityId, value) ==
  /\ LET g(activity) ==
           IF activity.id = activityId THEN [activity EXCEPT !.time = value]
           ELSE activity
         f(day) ==
           IF day.id = dayId
           THEN [day EXCEPT !.activities =
                   [k \in 1..Len(day.activities) |-> g(day.activities[k])]]
           ELSE day
     IN  days' = MapDays(f)
  /\ UNCHANGED <<frame, items, duration, dpc, now, ids, call, upload, page>>

(***************************************************************************)
(* Initial states of the file-upload component and of the create page.     *)
(***************************************************************************)
\* null, or the one value held, for File | null and string | null
NoValue == <<>>
Some(value) == <<value>>

\* useState<File | null>(null), useState<string | null>(null); selected is
\* e.target.files?.[0] || null of the last change event
InitialUpload == [file |-> NoValue, error |-> NoValue, selected |-> NoValue]

\* useState<File | null>(null), useState(false); pc is the position of the
\* running handleContinueUpload, data the grid it read, toast the title of
\* the last toast
InitialPage ==
  [selectedFile |-> NoValue, isProcessing |-> FALSE, pc |-> "idle",
   data |-> <<>>, toast |-> "none"]

(***************************************************************************)
(* FileUpload: handleFileChange.  A File is a record of its name, its MIME *)
(* type and its size in bytes.                                             *)
(***************************************************************************)
sCsv == <<".","c","s","v">>
sXlsx == <<".","x","l","s","x">>
sXls == <<".","x","l","s">>

validTypes ==
  {"application/vnd.ms-excel",
   "application/vnd.openxmlformats-officedocument.spreadsheetml.sheet",
   "text/csv",
   "application/vnd.google-apps.spreadsheet"}

validExtensions == {sCsv, sXlsx, sXls}

\* 5 * 1024 * 1024
MaxFileSize == 5 * 1024 * 1024

sInvalidFile == "Please upload a valid spreadsheet file (Excel or CSV)"
sTooLarge == "File size exceeds 5MB limit"

\* String.prototype.lastIndexOf, as a 0-based index or -1
lastIndexOf(s, ch) ==
  IF \E j \in 1..Len(s) : s[j] = ch
  THEN (CHOOSE j \in 1..Len(s) : s[j] = ch /\ \A k \in (j + 1)..Len(s) : s[k] # ch) - 1
  ELSE -1

\* String.prototype.substring(start): a negative start counts as 0
substring(s, start) == SubSeq(s, (IF start < 0 THEN 0 ELSE start) + 1, Len(s))

\* fileName.substring(fileName.lastIndexOf("."))
FileExtension(file) ==
  LET fileName == toLowerCase(file.name)
  IN  substring(fileName, lastIndexOf(fileName, "."))

\* isValidType || isValidExtension
TypeAllowed(file) ==
  file.type \in validTypes \/ FileExtension(file) \in validExtensions

SizeAllowed_Any(file) == TRUE

\* !(selectedFile.size > 5 * 1024 * 1024)
SizeAllowed(file) == ~ (file.size > MaxFileSize)

\* handleFileChange(e) with selected = e.target.files?.[0] || null: file and
\* error are reset and the parent is told null; an accepted file is then set
\* and passed to the parent's handleFileSelect, which is setSelectedFile
HandleFileChange(selected) ==
  /\ LET accepted == /\ selected # NoValue
                     /\ TypeAllowed(selected[1])
                     /\ SizeAllowed(selected[1])
         message == IF selected = NoValue THEN NoValue
                    ELSE IF ~TypeAllowed(selected[1]) THEN Some(sInvalidFile)
                    ELSE IF ~SizeAllowed(selected[1]) THEN Some(sTooLarge)
                    ELSE NoValue
     IN  /\ upload' = [file |-> IF accepted THEN selected ELSE NoValue,
                       error |-> message,
                       selected |-> selected]
         /\ page' = [page EXCEPT !.selectedFile =
                       IF accepted THEN selected ELSE NoValue]
  /\ UNCHANGED <<frame, items, duration, dpc, now, ids, call, days>>

(***************************************************************************)
(* CreatePage: handleContinueUpload.  page.pc is "idle" when no run is in  *)
(* progress and otherwise names the promise the run awaits.                *)
(***************************************************************************)
\* String.prototype.endsWith
endsWith(s, suffix) ==
  /\ Len(s) >= Len(suffix)
  /\ SubSeq(s, Len(s) - Len(suffix) + 1, Len(s)) = suffix

Toast(p, title) == [p EXCEPT !.toast = title]

Finally_KeepsProcessing(p) == [p EXCEPT !.pc = "idle"]

\* finally { setIsProcessing(false) }, the end of the run
Finally(p) == [p EXCEPT !.isProcessing = FALSE, !.pc = "idle"]

\* catch (error) { toast "Error Processing File" } finally { ... }
CatchAndFinally(p) == Finally(Toast(p, "Error Processing File"))

\* the inner catch (excelError): toast, setIsProcessing(false), return, and
\* the finally block on the way out
ExcelCatch(p) ==
  Finally([Toast(p, "Excel Processing Error") EXCEPT !.isProcessing = FALSE])

\* from the check of data.length to the end of the run.  The identifier
\* processItineraryData is not among the imports of the page (line 15): bound
\* says whether the build resolves it; if not, the call is a ReferenceError
AfterData(p, data, bound) ==
  LET q == [p EXCEPT !.data = data]
  IN  IF Len(data) < 2 THEN CatchAndFinally(q)
      ELSE IF ~bound \/ processItineraryDataThrows(data) THEN CatchAndFinally(q)
      ELSE Finally(Toast(q, "File Processed Successfully!"))

\* a click on Continue (disabled while isProcessing), up to the first await
HandleContinueUpload ==
  /\ page.pc = "idle"
  /\ ~page.isProcessing
  /\ IF page.selectedFile = NoValue
     THEN page' = Toast(page, "No file selected")
     ELSE LET fileName == toLowerCase(page.selectedFile[1].name)
              p == [Toast(page, "Processing file...") EXCEPT
                      !.isProcessing = TRUE]
          IN  IF endsWith(fileName, sCsv)
              THEN page' = [p EXCEPT !.pc = "text"]
              ELSE IF endsWith(fileName, sXlsx) \/ endsWith(fileName, sXls)
              THEN page' = [p EXCEPT !.pc = "import"]
              ELSE page' = CatchAndFinally(p)
  /\ UNCHANGED <<frame, items, duration, dpc, now, ids, call, days, upload>>

\* selectedFile.text() resolves and parseCSV gives data
TextRead(data, bound) ==
  /\ page.pc = "text"
  /\ page' = AfterData(page, data, bound)
  /\ UNCHANGED <<frame, items, duration, dpc, now, ids, call, days, upload>>

\* selectedFile.text() rejects
TextFailed ==
  /\ page.pc = "text"
  /\ page' = CatchAndFinally(page)
  /\ UNCHANGED <<frame, items, duration, dpc, now, ids, call, days, upload>>

\* import("xlsx") resolves
XlsxImported ==
  /\ page.pc = "import"
  /\ page' = [page EXCEPT !.pc = "buffer"]
  /\ UNCHANGED <<frame, items, duration, dpc, now, ids, call, days, upload>>

\* selectedFile.arrayBuffer() resolves and the sheet is decoded into data
BufferRead(data, bound) ==
  /\ page.pc = "buffer"
  /\ page' = AfterData(page, data, bound)
  /\ UNCHANGED <<frame, items, duration, dpc, now, ids, call, days, upload>>

\* the import or the read rejects, or XLSX.read throws
ExcelFailed ==
  /\ page.pc \in {"import", "buffer"}
  /\ page' = ExcelCatch(page)
  /\ UNCHANGED <<frame, items, duration, dpc, now, ids, call, days, upload>>

(***************************************************************************)
(* Sample grids: every grid is a head (no row, one row, or the two rows    *)
(* the pipeline skips) followed by at most MaxDataRows rows of DataRows.   *)
(***************************************************************************)
TitleRow ==
  <<Str(<<"T","i","t","l","e">>),
     Str(<<"T","r","i","p">>)>>

TitleOnlyRow ==
  <<Str(<<"T","i","t","l","e">>)>>

TitleEmptyRow == <<Str(<<"T","i","t","l","e">>), Str(<<>>)>>

TitleZeroRow == <<Str(<<"T","i","t","l","e">>), Num(0)>>

HeaderRow ==
  <<Str(<<"D","a","y">>),
     Str(<<"C","i","t","y">>),
     Str(<<"D","a","t","e">>),
     Str(<<"T","i","m","e">>),
     Str(<<"C","a","t","e","g","o","r","y">>),
     Str(<<"D","e","s","c","r","i","p","t","i","o","n">>)>>

RowParis ==
  <<Str(<<"1">>),
     Str(<<"P","a","r","i","s">>),
     Str(<<"0","5","-","0","1">>),
     Str(<<"9",":","0","0">>),
     Str(<<"F","o","o","d">>),
     Str(<<"L","u","n","c","h">>)>>

RowRome ==
  <<Str(<<"1">>),
     Str(<<"R","o","m","e">>),
     Str(<<"0","5","-","0","2">>),
     Str(<<"1","7",":","3","0">>),
     Str(<<"T","o","u","r">>),
     Str(<<"B","r","u","n","c","h","b","o","x">>)>>

RowOslo ==
  <<Num(1), Str(<<"O","s","l","o">>),
     Undefined,
     Str(<<" ","2","3",":","0","0"," ">>),
     Undefined,
     Str(<<"l","u","n","c","h",","," ","D","i","n","n","e","r">>)>>

RowBonn ==
  <<Str(<<"2">>),
     Str(<<"B","o","n","n">>),
     Str(<<"0","5","-","0","3">>),
     Num(9), Str(<<"D","I","N","N","E","R">>),
     Str(<<"T","o","w","e","r">>)>>

RowDayZero ==
  <<Num(0), Str(<<"B","e","r","n">>),
     Str(<<"0","5","-","0","1">>),
     Str(<<"9",":","0","0">>),
     Str(<<"F","o","o","d">>),
     Str(<<"L","u","n","c","h">>)>>

RowDaySentinel ==
  <<Str(<<" ","D","A","Y"," ">>),
     Str(<<"P","a","r","i","s">>),
     Str(<<"0","5","-","0","1">>),
     Str(<<"9",":","0","0">>),
     Str(<<"F","o","o","d">>),
     Str(<<"L","u","n","c","h">>)>>

RowCitySentinel ==
  <<Str(<<"3">>),
     Str(<<"C","i","t","y"," ">>),
     Str(<<"0","5","-","0","1">>),
     Str(<<"9",":","0","0">>),
     Str(<<"F","o","o","d">>),
     Str(<<"L","u","n","c","h">>)>>

RowConstructor ==
  <<Str(<<"c","o","n","s","t","r","u","c","t","o","r">>),
     Str(<<"P","a","r","i","s">>),
     Str(<<"0","5","-","0","1">>),
     Str(<<"9",":","0","0">>),
     Str(<<"F","o","o","d">>),
     Str(<<"L","u","n","c","h">>)>>

RowShort ==
  <<Str(<<"3">>),
     Str(<<"N","i","c","e">>)>>

RowNoDescription ==
  <<Str(<<"3">>),
     Str(<<"N","i","c","e">>),
     Str(<<"0","5","-","0","1">>),
     Str(<<"9",":","0","0">>),
     Null, Str(<<>>)>>

DataRows ==
  {RowParis, RowRome, RowOslo, RowBonn, RowDayZero, RowDaySentinel,
   RowCitySentinel, RowConstructor, RowShort, RowNoDescription}

ShortGrids == {<<>>, <<TitleRow>>}

Heads == {<<TitleRow, HeaderRow>>, <<TitleOnlyRow, HeaderRow>>,
          <<TitleEmptyRow, HeaderRow>>, <<TitleZeroRow, HeaderRow>>,
          <<RowParis, RowBonn>>}

RECURSIVE SeqsUpTo(_, _)
SeqsUpTo(S, n) ==
  IF n = 0 THEN {<<>>}
  ELSE LET shorter == SeqsUpTo(S, n - 1)
       IN  shorter \cup {Append(s, x) : s \in shorter, x \in S}

Grids ==
  ShortGrids \cup {h \o d : h \in Heads, d \in SeqsUpTo(DataRows, MaxDataRows)}

Invocations == {1, 2}

InitFrame == frame = [i \in Invocations |-> IdleFrame]
InitDurationIdle == items = <<>> /\ duration = <<>> /\ dpc = "idle"
InitCreateIdle == now = 0 /\ ids = <<>>
InitCallIdle == call = IdleCall
InitUiIdle == days = InitialDays /\ upload = InitialUpload /\ page = InitialPage

(***************************************************************************)
(* Spec: one invocation of processItineraryData on any sample grid.        *)
(***************************************************************************)
Init ==
  InitFrame /\ InitDurationIdle /\ InitCreateIdle /\ InitCallIdle /\ InitUiIdle

Next ==
  \/ frame[1].calls = 0 /\ \E grid \in Grids : Call(1, grid)
  \/ ForEachRow(1)
  \/ Return(1)

Spec == Init /\ [][Next]_vars

(***************************************************************************)
(* SpecIsolation: two invocations of processItineraryData, each called up  *)
(* to MaxCalls times, their steps interleaved in any order.                *)
(***************************************************************************)
IsoGrids ==
  { <<TitleRow, HeaderRow, RowParis>>,
    <<TitleRow, HeaderRow, RowRome, RowBonn>>,
    <<TitleOnlyRow, HeaderRow, RowOslo, RowParis>>,
    <<TitleRow, HeaderRow, RowConstructor>>,
    <<TitleRow>> }

NextIsolation ==
  \E i \in Invocations :
    \/ frame[i].calls < MaxCalls /\ \E grid \in IsoGrids : Call(i, grid)
    \/ ForEachRow(i)
    \/ Return(i)

SpecIsolation == Init /\ [][NextIsolation]_vars

(***************************************************************************)
(* SpecDuration: calculateDayDuration applied to any list of at most       *)
(* MaxItems items whose timings are drawn from Timings.                    *)
(***************************************************************************)
Timings ==
  { <<"0","9",":","0","0">>, <<"1","7",":","0","0">>,
    <<"2","3",":","0","0">>, <<"0","1",":","0","0">>,
    <<"9",":","2","1">>, <<"1","2",":","3","0">>,
    <<"b","a","d">>, <<"2","4",":","0","0">>, <<"1","0",":","7","5">>,
    <<"7",":","5">>, <<" ","9",":","0","0">>, <<"0","0",":","0","0">> }

ItemAt(timing) ==
  [timing |-> timing, category |-> Str(<<"F","o","o","d">>),
   description |-> Str(<<"T","o","w","e","r">>)]

ItemLists == SeqsUpTo({ItemAt(timing) : timing \in Timings}, MaxItems)

InitDuration ==
  /\ InitFrame
  /\ InitCreateIdle
  /\ InitCallIdle
  /\ InitUiIdle
  /\ items \in ItemLists
  /\ duration = <<>>
  /\ dpc = "ready"

NextDuration == CalculateDayDuration

SpecDuration == InitDuration /\ [][NextDuration]_vars

(***************************************************************************)
(* SpecFormatters: one application of detectMealsInItem, formatMealsText   *)
(* or getCategoryIcon to sample arguments.                                 *)
(***************************************************************************)
MealCategories ==
  { Str(<<"F","o","o","d">>),
    Str(<<"D","I","N","N","E","R">>),
    Str(<<"L","u","n">>),
    Str(<<"B","r","u","n","c","h">>),
    Str(<<"L","a","t","e"," ","b","r","e","a","k","f","a","s","t">>),
    Undefined,
    Null,
    Num(5) }

MealDescriptions ==
  { Str(<<"L","u","n","c","h">>),
    Str(<<"l","u","n","c","h","b","o","x">>),
    Str(<<"c","h"," ","b","o","x">>),
    Str(<<"D","i","n","n","e","r",","," ","b","r","u","n","c","h">>),
    Str(<<"T","o","w","e","r">>),
    Str(<<"b","r","e","a","k","f","a","s","t">>),
    Str(<<"L","u","n","c","h"," ","l","u","n","c","h">>),
    Str(<<"L","U","N","C","H"," ","&"," ","D","I","N","N","E","R">>),
    Str(<<>>) }

IconCategories ==
  { Str(<<"F","o","o","d">>),
    Str(<<"f","o","o","d">>),
    Str(<<"S","I","G","H","T","S","E","E","I","N","G">>),
    Str(<<"T","r","a","n","s","p","o","r","t","a","t","i","o","n">>),
    Str(<<"a","c","c","o","m","m","o","d","a","t","i","o","n">>),
    Str(<<"A","c","t","i","v","i","t","y">>),
    Str(<<"S","h","o","p","p","i","n","g">>),
    Str(<<>>),
    Str(<<"c","o","n","s","t","r","u","c","t","o","r">>),
    Undefined,
    Null,
    Num(3) }

MealArrays == SeqsUpTo(Range(mealKeywords), MaxMeals)

ReadyCall(fn, args) == [fn |-> fn, args |-> args, ret |-> <<>>, pc |-> "ready"]

InitFormatters ==
  /\ InitFrame
  /\ InitUiIdle
  /\ InitDurationIdle
  /\ InitCreateIdle
  /\ \/ \E category \in MealCategories, description \in MealDescriptions :
          call = ReadyCall("detectMealsInItem", <<category, description>>)
     \/ \E mealsArray \in MealArrays :
          call = ReadyCall("formatMealsText", <<mealsArray>>)
     \/ \E category \in IconCategories :
          call = ReadyCall("getCategoryIcon", <<category>>)

NextFormatters ==
  \/ DetectMealsInItem
  \/ FormatMealsText
  \/ GetCategoryIcon

SpecFormatters == InitFormatters /\ [][NextFormatters]_vars

(***************************************************************************)
(* SpecSheet: one grid given both to processSpreadsheetData and to         *)
(* processItineraryData.                                                   *)
(***************************************************************************)
SheetRows ==
  {RowParis, RowRome, RowOslo, RowBonn, RowDayZero, RowConstructor, NullRow}

SheetGrids ==
  ShortGrids \cup {<<NullRow, HeaderRow, RowParis>>}
    \cup {<<TitleRow, HeaderRow>> \o d : d \in SeqsUpTo(SheetRows, MaxDataRows)}

InitSheet ==
  /\ InitFrame
  /\ InitUiIdle
  /\ InitDurationIdle
  /\ InitCreateIdle
  /\ \E grid \in SheetGrids, userId \in UserIds :
       call = ReadyCall("processSpreadsheetData", <<grid, userId>>)

NextSheet ==
  \/ frame[1].calls = 0 /\ Call(1, call.args[1])
  \/ ForEachRow(1)
  \/ Return(1)
  \/ ProcessSpreadsheetData

SpecSheet == InitSheet /\ [][NextSheet]_vars

(***************************************************************************)
(* SpecPdf: processItineraryData on a sample grid, then createDayPage for  *)
(* one day of the aggregate.                                               *)
(***************************************************************************)
PdfRows == {RowParis, RowRome, RowOslo, RowBonn}

PdfGrids ==
  {<<TitleRow, HeaderRow>> \o d : d \in SeqsUpTo(PdfRows, MaxDataRows)}

NextPdf ==
  \/ frame[1].calls = 0 /\ \E grid \in PdfGrids : Call(1, grid)
  \/ ForEachRow(1)
  \/ Return(1)
  \/ \E key \in DOMAIN frame[1].result.days : CreateDayPage(key)

SpecPdf == Init /\ [][NextPdf]_vars

(***************************************************************************)
(* SpecForm: any sequence of the handlers of the manual-entry form, each   *)
(* called as the rendered buttons and inputs call it: with the id of a     *)
(* rendered day and of one of its activities.                              *)
(***************************************************************************)
Cities == {"", "Rome"}
ActivityTimes == {"", "9:00"}

NextForm ==
  \/ AddDay
  \/ \E j \in 1..Len(days) : RemoveDay(days[j].id)
  \/ \E j \in 1..Len(days) : AddActivity(days[j].id)
  \/ \E j \in 1..Len(days), k \in 1..MaxActivities :
       /\ k <= Len(days[j].activities)
       /\ RemoveActivity(days[j].id, days[j].activities[k].id)
  \/ \E j \in 1..Len(days), value \in Cities : UpdateDay(days[j].id, value)
  \/ \E j \in 1..Len(days), k \in 1..MaxActivities, value \in ActivityTimes :
       /\ k <= Len(days[j].activities)
       /\ UpdateActivity(days[j].id, days[j].activities[k].id, value)

SpecForm == Init /\ [][NextForm]_vars

(***************************************************************************)
(* SpecUpload: any sequence of file selections in the FileUpload component *)
(***************************************************************************)
FileNames ==
  { <<"a",".","c","s","v">>,
    <<"A",".","X","L","S","X">>,
    <<"b",".","x","l","s">>,
    <<"n","o","t","e","s",".","t","x","t">>,
    <<"c","s","v">>,
    <<"a",".","c","s","v",".","z","i","p">>,
    <<"d","a","t","a">> }

FileTypes ==
  {"", "text/plain", "text/csv", "application/vnd.ms-excel",
   "application/vnd.google-apps.spreadsheet",
   "application/vnd.openxmlformats-officedocument.spreadsheetml.sheet"}

FileSizes == {0, MaxFileSize, MaxFileSize + 1}

Files ==
  {[name |-> name, type |-> type, size |-> size] :
     name \in FileNames, type \in FileTypes, size \in FileSizes}

Selections == {NoValue} \cup {Some(file) : file \in Files}

NextUpload == \E selected \in Selections : HandleFileChange(selected)

SpecUpload == Init /\ [][NextUpload]_vars

(***************************************************************************)
(* SpecPage: file selections and clicks on Continue on the create page.    *)
(* SpecPageFair adds that an awaited promise settles.                      *)
(***************************************************************************)
PageFiles ==
  {[name |-> name, type |-> "", size |-> 0] :
     name \in {<<"a",".","c","s","v">>, <<"A",".","X","L","S","X">>,
               <<"b",".","x","l","s">>, <<"n","o","t","e","s",".","t","x","t">>}}

PageSelections == {NoValue} \cup {Some(file) : file \in PageFiles}

PageGrids ==
  { <<>>, <<TitleRow>>, <<TitleRow, HeaderRow>>,
    <<TitleRow, HeaderRow, RowParis>>,
    <<TitleRow, HeaderRow, RowRome, RowParis>>,
    <<TitleRow, HeaderRow, RowConstructor>> }

Settle ==
  \/ \E data \in PageGrids, bound \in BOOLEAN : TextRead(data, bound)
  \/ TextFailed
  \/ XlsxImported
  \/ \E data \in PageGrids, bound \in BOOLEAN : BufferRead(data, bound)
  \/ ExcelFailed

NextPage ==
  \/ \E selected \in PageSelections : HandleFileChange(selected)
  \/ HandleContinueUpload
  \/ Settle

SpecPage == Init /\ [][NextPage]_vars

SpecPageFair == SpecPage /\ WF_vars(Settle)

(***************************************************************************)
(* SpecCreate: calls of createItinerary while the clock advances.          *)
(***************************************************************************)
NextCreate ==
  \/ \E userId \in UserIds : CreateItinerary(userId)
  \/ Tick

SpecCreate == Init /\ [][NextCreate]_vars

(***************************************************************************)
(* Claims about processItineraryData.                                      *)
(***************************************************************************)
\* the day map of an activation: the returned one once it has returned
Days(f) == IF f.pc = "done" THEN f.result.days ELSE f.grouped

\* the filtered rows the forEach has gone through
Consumed(f) == SubSeq(f.rows, 1, f.pos)

RECURSIVE SumItems(_, _)
SumItems(g, keys) ==
  IF keys = {} THEN 0
  ELSE LET k == CHOOSE x \in keys : TRUE
       IN  Len(g[k].items) + SumItems(g, keys \ {k})

TotalItems(g) == SumItems(g, DOMAIN g)

RowsOfDay(rs, k) == LET OfDay(r) == DayKey(r) = k IN SelectSeq(rs, OfDay)

\* C1: for every grid, processItineraryData creates exactly one item per row
\* that passes the filter: when a call has ended, the items of all its days
\* together are as many as the rows of grid[2..] that pass the filter.
C1_OneItemPerFilteredRow ==
  \A i \in Invocations :
    frame[i].pc \in {"done", "error"} =>
      TotalItems(Days(frame[i])) =
        Len(SelectSeq(Slice2(frame[i].data), RowFilter))

\* C2: city and date of a day are those of the first filtered row with that
\* day key, whatever later rows of the same key carry.
C2_FirstWriteWins ==
  \A i \in Invocations :
    \A k \in DOMAIN Days(frame[i]) :
      LET mine == RowsOfDay(Consumed(frame[i]), k)
      IN  /\ mine # <<>>
          /\ Days(frame[i])[k].city = Cell(mine[1], 1)
          /\ Days(frame[i])[k].date = Cell(mine[1], 2)

C2_Witness ==
  \E i \in Invocations :
    /\ frame[i].pc = "done"
    /\ \E k \in DOMAIN frame[i].result.days :
         LET mine == RowsOfDay(frame[i].rows, k)
         IN  /\ Len(mine) >= 2
             /\ Cell(mine[2], 1) # Cell(mine[1], 1)
             /\ Cell(mine[2], 2) # Cell(mine[1], 2)

\* C3: at every step of the fold and in the result, allMeals of a day is the
\* union of detectMealsInItem over the day's items, within the four meal
\* keywords and without duplicates.
C3_AllMealsIsUnionOfDetected ==
  \A i \in Invocations :
    \A k \in DOMAIN Days(frame[i]) :
      LET d == Days(frame[i])[k]
      IN  /\ Range(d.allMeals) =
               UNION { Range(detectMealsInItem(it.category, it.description)) :
                       it \in Range(d.items) }
          /\ Range(d.allMeals) \subseteq Range(mealKeywords)
          /\ Cardinality(Range(d.allMeals)) = Len(d.allMeals)

C3_Witness ==
  \E i \in Invocations :
    /\ frame[i].pc = "fold"
    /\ \E k \in DOMAIN frame[i].grouped :
         LET d == frame[i].grouped[k]
         IN  /\ Len(d.allMeals) >= 2
             /\ \E a, b \in 1..Len(d.items) :
                  /\ a # b
                  /\ sLunch \in Range(detectMealsInItem(d.items[a].category,
                                                        d.items[a].description))
                  /\ sLunch \in Range(detectMealsInItem(d.items[b].category,
                                                        d.items[b].description))

\* a cell that is not null, not undefined and not "" after coercion to string
NonEmptyCell(c) == c.k \notin {"undef", "null"} /\ String(c) # <<>>

KeepsByClaim(row) ==
  /\ NonEmptyCell(Cell(row, 0))
  /\ NonEmptyCell(Cell(row, 1))
  /\ NonEmptyCell(Cell(row, 5))
  /\ toLowerCase(trim(String(Cell(row, 0)))) # sDayLower
  /\ toLowerCase(trim(String(Cell(row, 1)))) # sCityLower

\* C4: the filter keeps a data row if and only if cells 0, 1 and 5 are
\* non-empty after coercion to string (a numeric 0 is non-empty) and the row
\* is no repeated header row.
C4_FilterKeepsNonEmptyRows ==
  \A i \in Invocations :
    frame[i].pc # "idle" =>
      frame[i].rows = SelectSeq(Slice2(frame[i].data), KeepsByClaim)

\* C6: no sample grid (cells that are strings, numbers or empty, short rows,
\* any day key) makes processItineraryData end in an error.
C6_NeverRaises == \A i \in Invocations : frame[i].pc # "error"

\* C9: the items of a day are the items of the filtered rows of that day, in
\* the order of the rows.
C9_ItemsInRowOrder ==
  \A i \in Invocations :
    \A k \in DOMAIN Days(frame[i]) :
      LET mine == RowsOfDay(Consumed(frame[i]), k)
      IN  Days(frame[i])[k].items = [j \in 1..Len(mine) |-> NewItem(mine[j])]

C9_Witness ==
  \E i \in Invocations :
    /\ frame[i].pc = "done"
    /\ Len(frame[i].rows) = 3
    /\ DayKey(frame[i].rows[1]) = DayKey(frame[i].rows[3])
    /\ DayKey(frame[i].rows[1]) # DayKey(frame[i].rows[2])
    /\ NewItem(frame[i].rows[1]) # NewItem(frame[i].rows[3])

\* C10: the item built from a filtered row goes to the bucket of that row's
\* day key and to no other: a run of the callback adds one item to that
\* bucket and leaves the items of every other bucket as they were.
C10_ItemInExactlyOneBucket ==
  [][\A i \in Invocations :
       (frame[i].pc = "fold" /\ frame'[i].pos = frame[i].pos + 1) =>
         LET key == DayKey(frame[i].rows[frame'[i].pos])
             before == frame[i].grouped
             after == frame'[i].grouped
         IN  /\ key \in DOMAIN after
             /\ Len(after[key].items) =
                  (IF key \in DOMAIN before THEN Len(before[key].items) ELSE 0) + 1
             /\ after[key].items[Len(after[key].items)] =
                  NewItem(frame[i].rows[frame'[i].pos])
             /\ \A k \in DOMAIN after \ {key} :
                  k \in DOMAIN before /\ after[k].items = before[k].items]_vars

C10_Witness ==
  \E i \in Invocations :
    /\ frame[i].pc = "done"
    /\ \E k1, k2 \in DOMAIN frame[i].result.days :
         /\ k1 # k2
         /\ Len(frame[i].result.days[k1].items) = 2
         /\ Len(frame[i].result.days[k2].items) = 1

\* the aggregate processItineraryData builds for a grid when nothing else runs
RECURSIVE GroupAll(_, _)
GroupAll(g, rs) ==
  IF rs = <<>> THEN g ELSE GroupAll(GroupRow(g, Head(rs)), Tail(rs))

AggregateOf(grid) ==
  [title |-> TripTitle(grid), days |-> GroupAll(EmptyMap, FilterRows(grid))]

\* C8: the aggregate an invocation returns for a grid is the aggregate of that
\* grid alone, whatever other invocations ran before it or are interleaved
\* with it.
C8_InvocationsIsolated ==
  \A i \in Invocations :
    frame[i].pc = "done" => frame[i].result = AggregateOf(frame[i].data)

C8_Witness ==
  \E i, j \in Invocations :
    /\ i # j
    /\ frame[i].pc = "done"
    /\ frame[i].calls = 2
    /\ DOMAIN frame[i].result.days # {}
    /\ frame[j].pc = "fold"
    /\ frame[j].pos >= 1
    /\ frame[j].data # frame[i].data

(***************************************************************************)
(* Claims about calculateDayDuration.                                      *)
(***************************************************************************)
\* C5: two items with valid timings, the first later in the day than the
\* second (23:00 then 01:00): the result is the span second - first + 1440
\* minutes ("2 hours" for the example).
C5_OvernightWrapAround ==
  ( /\ dpc = "done"
    /\ Len(items) = 2
    /\ ValidTiming(items[1].timing)
    /\ ValidTiming(items[2].timing)
    /\ MinutesOf(items[1].timing) > MinutesOf(items[2].timing) )
  => duration = FormatDuration(MinutesOf(items[2].timing)
                               - MinutesOf(items[1].timing) + MinutesPerDay)

(***************************************************************************)
(* Claims about createItinerary.                                           *)
(***************************************************************************)
\* C7: any two calls of createItinerary return distinct identifiers.
C7_DistinctIdentifiers ==
  \A a, b \in 1..Len(ids) : a # b => ids[a] # ids[b]

(***************************************************************************)
(* Claims about the header rows, the title and grids without data.         *)
(***************************************************************************)
\* the indices (from 1) of the rows of a grid below its first two rows
DataIndices(grid) == {j \in 1..Len(grid) : j >= 3}

\* C11: the first two rows of the grid never produce an item or a day: the
\* items of all days are at most as many as the rows from index 2 on, and
\* every day has the day key of such a row that passes the filter.
C11_HeaderRowsProduceNothing ==
  \A i \in Invocations :
    /\ TotalItems(Days(frame[i])) <= Cardinality(DataIndices(frame[i].data))
    /\ \A k \in DOMAIN Days(frame[i]) :
         \E j \in DataIndices(frame[i].data) :
           RowFilter(frame[i].data[j]) /\ DayKey(frame[i].data[j]) = k

C11_Witness ==
  \E i \in Invocations :
    /\ frame[i].pc = "done"
    /\ Len(frame[i].data) >= 3
    /\ RowFilter(frame[i].data[1])
    /\ RowFilter(frame[i].data[2])
    /\ DOMAIN frame[i].result.days # {}
    /\ DayKey(frame[i].data[2]) \notin DOMAIN frame[i].result.days

\* the cell grid[0][1] holds a title: a non-empty string or a non-zero number
\* (an empty string and 0 are taken as no title, as undefined and null are)
TitlePresent(grid) ==
  /\ Len(grid) >= 1
  /\ Len(grid[1]) >= 2
  /\ \/ grid[1][2].k = "str" /\ Len(grid[1][2].s) > 0
     \/ grid[1][2].k = "num" /\ grid[1][2].n # 0

C13_NoDataRowsGiveEmptyDays ==
  \A i \in Invocations :
    (/\ frame[i].pc # "idle"
     /\ \A j \in DataIndices(frame[i].data) : ~ RowFilter(frame[i].data[j]))
    => /\ frame[i].pc \in {"fold", "done"}
       /\ frame[i].rows = <<>>
       /\ DOMAIN Days(frame[i]) = {}

C13_Witness ==
  \E i \in Invocations :
    /\ frame[i].pc = "done"
    /\ Len(frame[i].data) = 5
    /\ RowFilter(frame[i].data[1])
    /\ DOMAIN frame[i].result.days = {}

(***************************************************************************)
(* Claims about detectMealsInItem (SpecFormatters)                         *)
(***************************************************************************)
\* keyword occurs in text at some offset
Occurs(keyword, text) ==
  \E i \in 1..(Len(text) - Len(keyword) + 1) :
    SubSeq(text, i, i + Len(keyword) - 1) = keyword

KeywordIndex(keyword) == CHOOSE i \in 1..Len(mealKeywords) : mealKeywords[i] = keyword

Lowered(cell) == toLowerCase(String(cell))

DetectDone == call.fn = "detectMealsInItem" /\ call.pc = "done"

\* C14: detectMealsInItem returns exactly the keywords among breakfast,
\* brunch, lunch, dinner that occur as a substring of the lowercased
\* "category description" text, in the fixed keyword order and each at most
\* once; "lunchbox" matches lunch.
C14_MealsAreKeywordsInText ==
  DetectDone =>
    LET text == Lowered(call.args[1]) \o <<" ">> \o Lowered(call.args[2])
    IN  /\ Range(call.ret) = {k \in Range(mealKeywords) : Occurs(k, text)}
        /\ \A a, b \in 1..Len(call.ret) :
             a < b => KeywordIndex(call.ret[a]) < KeywordIndex(call.ret[b])
        /\ call.args[2] = Str(<<"l","u","n","c","h","b","o","x">>)
             => sLunch \in Range(call.ret)

\* a description naming dinner before brunch, a category without a meal
C14_Witness ==
  /\ DetectDone
  /\ call.args[1] = Str(<<"F","o","o","d">>)
  /\ call.args[2] = Str(<<"D","i","n","n","e","r",","," ","b","r","u","n","c","h">>)
  /\ call.ret = <<sBrunch, sDinner>>

\* C15: detectMealsInItem finds the same keywords when category and
\* description are swapped, and every keyword found lies entirely within the
\* category or entirely within the description.
C15_MealsSymmetric ==
  DetectDone =>
    /\ Range(call.ret) = Range(detectMealsInItem(call.args[2], call.args[1]))
    /\ \A k \in Range(call.ret) :
         Occurs(k, Lowered(call.args[1])) \/ Occurs(k, Lowered(call.args[2]))

\* "Lun" and "ch box": the keyword would span the join
C15_Witness ==
  /\ DetectDone
  /\ call.args[1] = Str(<<"L","u","n">>)
  /\ call.args[2] = Str(<<"c","h"," ","b","o","x">>)
  /\ call.ret = <<>>

(***************************************************************************)
(* Claims about calculateDayDuration (SpecDuration)                        *)
(***************************************************************************)
TwoDigits(n) == NatToString(n \div 10) \o NatToString(n % 10)

\* the timings written as one or two digits, a colon and two digits, with
\* hour 0..23 and minute 0..59
ValidTimingStrings ==
  {NatToString(h) \o <<":">> \o TwoDigits(m) : h \in 0..23, m \in 0..59}
    \cup {<<"0">> \o NatToString(h) \o <<":">> \o TwoDigits(m) :
            h \in 0..9, m \in 0..59}

HasValidTiming(item) == item.timing \in ValidTimingStrings

\* C16: the result of calculateDayDuration equals its result on the sub-list
\* of the items whose timing is valid; items with a malformed timing change
\* nothing.
C16_MalformedTimingsIgnored ==
  dpc = "done" =>
    duration = calculateDayDuration(SelectSeq(items, HasValidTiming))

\* 09:00, 24:00, 17:00: the out-of-range timing in the middle is skipped
C16_Witness ==
  /\ dpc = "done"
  /\ Len(items) = 3
  /\ items[1].timing = <<"0","9",":","0","0">>
  /\ items[2].timing = <<"2","4",":","0","0">>
  /\ items[3].timing = <<"1","7",":","0","0">>
  /\ duration = <<"8">> \o sHours

\* C17: calculateDayDuration returns "0 hours" for the empty list and for a
\* list in which no item has a valid timing.
C17_ZeroHoursWithoutValidTiming ==
  (dpc = "done" /\ \A j \in 1..Len(items) : ~HasValidTiming(items[j]))
    => duration = <<"0"," ","h","o","u","r","s">>

\* a non-empty list of malformed timings only
C17_Witness ==
  /\ dpc = "done"
  /\ Len(items) >= 2
  /\ \A j \in 1..Len(items) : ~HasValidTiming(items[j])
  /\ duration = sZeroHours

\* the minutes between the earliest and the latest valid time of the items
ValidMinutes == {MinutesOf(items[j].timing) :
                   j \in {k \in 1..Len(items) : HasValidTiming(items[k])}}
Span ==
  (CHOOSE x \in ValidMinutes : \A y \in ValidMinutes : x >= y)
    - (CHOOSE x \in ValidMinutes : \A y \in ValidMinutes : x <= y)

\* C18: a span that is a multiple of 60 is shown as "<N> hours" with the
\* integer N = span / 60; any other span is shown in hours with exactly one
\* decimal place; 09:00 and 17:00 give "8 hours".
C18_WholeHoursOrOneDecimal ==
  (dpc = "done" /\ ValidMinutes # {}) =>
    /\ Span < 1440
    /\ Span % 60 = 0 => duration = NatToString(Span \div 60) \o sHours
    /\ Span % 60 # 0 =>
         \E tenths \in 0..240 :
           /\ duration = NatToString(tenths \div 10) \o <<".">> \o
                         NatToString(tenths % 10) \o sHours
           /\ 6 * tenths - Span \in -3..3
    /\ (/\ Len(items) = 2
        /\ items[1].timing = <<"0","9",":","0","0">>
        /\ items[2].timing = <<"1","7",":","0","0">>)
         => duration = <<"8"," ","h","o","u","r","s">>

\* 09:00 and 12:30 give "3.5 hours"
C18_Witness ==
  /\ dpc = "done"
  /\ Len(items) = 2
  /\ items[1].timing = <<"0","9",":","0","0">>
  /\ items[2].timing = <<"1","2",":","3","0">>
  /\ duration = <<"3",".","5">> \o sHours

(***************************************************************************)
(* Claims about formatMealsText and getCategoryIcon (SpecFormatters)       *)
(***************************************************************************)
\* where the i-th meal starts in the text: after the meals before it and
\* their three-character separators
RECURSIVE MealOffset(_, _)
MealOffset(meals, i) ==
  IF i = 1 THEN 0 ELSE MealOffset(meals, i - 1) + Len(meals[i - 1]) + 3

FormatDone == call.fn = "formatMealsText" /\ call.pc = "done"

\* C19: formatMealsText gives "No meals detected" for an empty collection;
\* otherwise the text is the meals in the collection's order, each with its
\* first letter in upper case and the rest unchanged, with " & " between
\* neighbours; lunch, dinner gives "Lunch & Dinner".
C19_MealsTextInOrder ==
  FormatDone =>
    LET meals == call.args[1]
        n == Len(meals)
        text == call.ret
    IN  /\ n = 0 =>
             text = <<"N","o"," ","m","e","a","l","s"," ",
                      "d","e","t","e","c","t","e","d">>
        /\ n > 0 =>
             /\ Len(text) = MealOffset(meals, n) + Len(meals[n])
             /\ \A i \in 1..n :
                  LET from == MealOffset(meals, i)
                      piece == SubSeq(text, from + 1, from + Len(meals[i]))
                  IN  /\ Len(piece) = Len(meals[i])
                      /\ piece[1] \in Range(UpperLetters)
                      /\ LowerChar(piece[1]) = meals[i][1]
                      /\ Tail(piece) = Tail(meals[i])
                      /\ i < n =>
                           SubSeq(text, from + Len(meals[i]) + 1,
                                  from + Len(meals[i]) + 3) = <<" ","&"," ">>
        /\ meals = <<sLunch, sDinner>> =>
             text = <<"L","u","n","c","h"," ","&"," ","D","i","n","n","e","r">>

\* dinner before breakfast: the order of the collection, not of the keywords
C19_Witness ==
  /\ FormatDone
  /\ call.args[1] = <<sDinner, sBreakfast>>
  /\ call.ret = <<"D","i","n","n","e","r"," ","&"," ",
                  "B","r","e","a","k","f","a","s","t">>

\* C20: getCategoryIcon returns for every category value, with the icon of
\* the entry the lowercased category equals and the generic icon otherwise.
C20_IconForEveryCategory ==
  (call.fn = "getCategoryIcon" /\ call.pc # "ready") =>
    /\ call.pc = "done"
    /\ LET category == call.args[1]
       IN  call.ret =
             IF category.k = "str" /\ toLowerCase(category.s) \in categoryIconKeys
             THEN IconOf(toLowerCase(category.s))
             ELSE GenericIcon

(***************************************************************************)
(* Claims about structural errors and the duplicated pipeline (SpecSheet)  *)
(***************************************************************************)
\* the data region of the grid holds an element that is not an array
HasNullDataRow(grid) == \E j \in DataIndices(grid) : grid[j] = NullRow

SheetCall == call.fn = "processSpreadsheetData"

\* C21: a grid whose data region holds a row that is null is signalled as a
\* ProcessingError by processItineraryData and by processSpreadsheetData.
C21_StructuralErrorIsProcessingError ==
  /\ \A i \in Invocations :
       (frame[i].pc # "idle" /\ HasNullDataRow(frame[i].data))
         => frame[i].pc = "error" /\ frame[i].thrown = "ProcessingError"
  /\ (SheetCall /\ call.pc # "ready" /\ HasNullDataRow(call.args[1]))
       => call.pc = "error" /\ call.ret.name = "ProcessingError"

SheetFinished == SheetCall /\ call.pc \in {"done", "error"}
CoreFinished == frame[1].pc \in {"done", "error"}

\* C28: for the same grid, processSpreadsheetData hands createItinerary an
\* aggregate with the title and the days processItineraryData returns, plus
\* the user id; and it builds one exactly when processItineraryData returns.
C28_SheetPipelineEquivalent ==
  (SheetFinished /\ CoreFinished) =>
    /\ call.pc = "done" <=> frame[1].pc = "done"
    /\ call.pc = "done" =>
         /\ call.ret.itineraryData.title = frame[1].result.title
         /\ call.ret.itineraryData.days = frame[1].result.days
         /\ call.ret.itineraryData.userId = call.args[2]

\* two days, one of them with a meal found in the category only
C28_Witness ==
  /\ SheetCall /\ call.pc = "done" /\ frame[1].pc = "done"
  /\ Cardinality(DOMAIN frame[1].result.days) = 2
  /\ \E k \in DOMAIN frame[1].result.days :
       /\ frame[1].result.days[k].allMeals = <<sDinner>>
       /\ Len(frame[1].result.days[k].items) = 1
       /\ frame[1].result.days[k].items[1].description = Str(<<"T","o","w","e","r">>)
  /\ call.ret.itineraryData.days = frame[1].result.days

(***************************************************************************)
(* Claims about the PDF day page (SpecPdf)                                 *)
(***************************************************************************)
PageDone == call.fn = "createDayPage" /\ call.pc = "done"

\* the rows of the activities table whose time cell is a valid timing
TimedRows(tableBody) ==
  SelectSeq(tableBody, LAMBDA row : row[1] \in ValidTimingStrings)

\* C22: the rows of the activities table of a day page are in non-decreasing
\* time order, whatever the order of the rows in the grid.
C22_TableChronological ==
  PageDone =>
    LET timed == TimedRows(call.ret.body)
    IN  \A a, b \in 1..Len(timed) :
          a < b => MinutesOf(timed[a][1]) <= MinutesOf(timed[b][1])

Reorderings(its) ==
  {[j \in 1..Len(its) |-> its[f[j]]] :
     f \in {g \in [1..Len(its) -> 1..Len(its)] :
              \A a, b \in 1..Len(its) : a # b => g[a] # g[b]}}

C26_FormNeverEmpty ==
  /\ Len(days) >= 1
  /\ \A j \in 1..Len(days) : Len(days[j].activities) >= 1

\* C27: day ids are pairwise distinct and the activity ids of each day are
\* pairwise distinct.
C27_FormIdsDistinct ==
  /\ \A a, b \in 1..Len(days) : a # b => days[a].id # days[b].id
  /\ \A j \in 1..Len(days) :
       \A a, b \in 1..Len(days[j].activities) :
         a # b => days[j].activities[a].id # days[j].activities[b].id

(***************************************************************************)
(* Claims about the file-upload component (SpecUpload)                     *)
(***************************************************************************)
\* the name, in lower case, ends with extension
EndsWith(name, extension) ==
  /\ Len(name) >= Len(extension)
  /\ SubSeq(toLowerCase(name), Len(name) - Len(extension) + 1, Len(name))
       = extension

Acceptable(file) ==
  /\ \/ file.type \in {"application/vnd.ms-excel", "text/csv",
                       "application/vnd.google-apps.spreadsheet",
                       "application/vnd.openxmlformats-officedocument.spreadsheetml.sheet"}
     \/ \E extension \in {<<".","c","s","v">>, <<".","x","l","s","x">>,
                          <<".","x","l","s">>} : EndsWith(file.name, extension)
  /\ file.size <= 5242880

\* C29: the file the parent was told is the component's file state; it is
\* non-null only if it is the last selected file and that file has an accepted
\* MIME type or extension and at most 5 MB; the error message and the file are
\* never both set.
C29_UploadStateConsistent ==
  /\ page.selectedFile = upload.file
  /\ upload.file # NoValue =>
       /\ upload.file = upload.selected
       /\ Acceptable(upload.file[1])
  /\ ~ (upload.error # NoValue /\ upload.file # NoValue)

\* a file with an accepted extension and one byte too many: error, no file
C29_Witness ==
  /\ upload.selected # NoValue
  /\ upload.selected[1].name = <<"a",".","c","s","v">>
  /\ upload.selected[1].size = 5242881
  /\ upload.error = Some(sTooLarge)
  /\ upload.file = NoValue
  /\ page.selectedFile = NoValue

=============================================================================
